---- MODULE Spec2Model ----
(***************************************************************************)
(* Model of examples/multi_user_update.py: the UK theatrical release date  *)
(* selector, the iCalendar builder, the per-user watchlist processing and  *)
(* the multi-user main run.                                                *)
(*                                                                         *)
(* Text is modelled as a sequence of one-character strings, so that        *)
(* slicing, escaping, formatting, parsing and lexicographic comparison are *)
(* computed character by character as the Python code computes them.       *)
(* A JSON object is a record; a key whose value is null is modelled like   *)
(* an absent key (dict.get returns None for both).                         *)
(***************************************************************************)
EXTENDS Integers, Sequences, FiniteSets, TLC

VARIABLES
    payload,      \* selector run: the release-dates payload handed to the selector
    today,        \* selector run: the reference date
    chosen,       \* selector run: what choose_gb_theatrical_date returned
    previous,     \* selector run: what it returned for the previous reference date
    ics_movies,   \* builder run: the movies handed to build_ics_events
    ics_stamp,    \* builder run: the DTSTAMP text
    ics_user,     \* builder run: the user identifier
    ics_doc,      \* builder run: the document build_ics_events returned
    other_user,   \* builder run: a second user identifier
    other_doc,    \* builder run: the document built for it from the same movies and stamp
    generic_doc,  \* builder run: the document built from them without a user identifier
    api_key,      \* main run: whether TMDB_API_KEY is set
    disk,         \* main run: the watchlists directory and the old watchlist.json
    pc,           \* main run: where main stands
    exit_status,  \* main run: the process's exit status, once it has ended
    run_today,    \* main run: main's today
    run_stamp,    \* main run: main's dtstamp_utc
    watchlist_files, \* main run: what the glob found, in its order
    done_files,   \* main run: how many watchlist files the loop of main has taken
    users,        \* main run: main's users list
    cur_user,     \* main run: the username process_user_watchlist runs for
    watch,        \* main run: that user's parsed watchlist
    pos,          \* main run: how many of its items the loop has taken
    fetched,      \* main run: what the catalog answered for each item taken
    upcoming,     \* main run: the three buckets
    released,
    tbd,
    returned,     \* main run: how the last process_user_watchlist call ended
    site,         \* main run: the files written under site/<username>/
    index,        \* main run: the user list of site/index.html
    stderr        \* main run: the diagnostics printed

selvars == <<payload, today, chosen, previous>>

icsvars == <<ics_movies, ics_stamp, ics_user, ics_doc, other_user, other_doc, generic_doc>>

mainvars ==
    <<api_key, disk, pc, exit_status, run_today, run_stamp, watchlist_files, done_files, users,
      cur_user, watch, pos, fetched, upcoming, released, tbd, returned, site, index, stderr>>

vars == <<selvars, icsvars, mainvars>>

-----------------------------------------------------------------------------
(* Characters and text                                                     *)

\* The printable ASCII characters in code-point order, 32 (space) .. 126 (~);
\* code point 96 cannot be written as a string literal and has a stand-in.
ASCII ==
    <<" ", "!", "\"", "#", "$", "%", "&", "'", "(", ")", "*", "+", ",", "-", ".", "/",
      "0", "1", "2", "3", "4", "5", "6", "7", "8", "9", ":", ";", "<", "=", ">", "?",
      "@", "A", "B", "C", "D", "E", "F", "G", "H", "I", "J", "K", "L", "M", "N", "O",
      "P", "Q", "R", "S", "T", "U", "V", "W", "X", "Y", "Z", "[", "\\", "]", "^", "_",
      "<grave>", "a", "b", "c", "d", "e", "f", "g", "h", "i", "j", "k", "l", "m", "n", "o",
      "p", "q", "r", "s", "t", "u", "v", "w", "x", "y", "z", "{", "|", "}", "~">>

Chars == {ASCII[i] : i \in 1..Len(ASCII)} \cup {"\n"}

\* Code point of a character (what Python compares when it compares str values).
OrdTable == [c \in Chars |-> IF c = "\n" THEN 10 ELSE 31 + (CHOOSE i \in 1..Len(ASCII) : ASCII[i] = c)]

Ord(c) == OrdTable[c]

\* str.lower() on one character.
LowerChar(c) == IF Ord(c) >= 65 /\ Ord(c) <= 90 THEN ASCII[Ord(c) + 32 - 31] ELSE c

\* str.lower()
Lower(s) == [i \in 1..Len(s) |-> LowerChar(s[i])]

\* s[:n]
Prefix(s, n) == SubSeq(s, 1, IF Len(s) < n THEN Len(s) ELSE n)

\* Python's None where a text value may stand; no text equals it, since the
\* elements of a text are one-character strings.
None == <<"None">>

\* Truth value of an optional text: None and "" are false.
Truthy(v) == v # None /\ v # <<>>

\* dict.get(key) on a JSON object holding text values.
Get(obj, key) == IF key \in DOMAIN obj THEN obj[key] ELSE None

DigitChars == <<"0", "1", "2", "3", "4", "5", "6", "7", "8", "9">>

IsDigit(c) == \E i \in 1..10 : DigitChars[i] = c

DigitVal(c) == (CHOOSE i \in 1..10 : DigitChars[i] = c) - 1

\* Value of a run of ASCII digits.
RECURSIVE DigitsVal(_)
DigitsVal(s) == IF s = <<>> THEN 0 ELSE 10 * DigitsVal(SubSeq(s, 1, Len(s) - 1)) + DigitVal(s[Len(s)])

AllDigits(s) == \A i \in 1..Len(s) : IsDigit(s[i])

\* str(n) for n >= 0.
RECURSIVE IntStr(_)
IntStr(n) == IF n < 10 THEN <<DigitChars[n + 1]>> ELSE IntStr(n \div 10) \o <<DigitChars[(n % 10) + 1]>>

\* f"{n:0wd}" for n >= 0.
RECURSIVE ZeroPad(_, _)
ZeroPad(s, w) == IF Len(s) >= w THEN s ELSE ZeroPad(<<"0">> \o s, w)

FormatInt(n, w) == ZeroPad(IntStr(n), w)

-----------------------------------------------------------------------------
(* Calendar dates (datetime.date)                                          *)

MINYEAR == 1

MAXYEAR == 9999

IsLeap(y) == y % 4 = 0 /\ (y % 100 # 0 \/ y % 400 = 0)

DaysInMonth(y, m) ==
    IF m = 2 THEN (IF IsLeap(y) THEN 29 ELSE 28)
    ELSE IF m \in {4, 6, 9, 11} THEN 30 ELSE 31

\* What stands for a date where the code raises ValueError instead.
DateError == [ok |-> FALSE, year |-> 0, month |-> 0, day |-> 0]

\* datetime.date(y, m, d): DateError where the constructor raises ValueError.
MkDate(y, m, d) ==
    IF y >= MINYEAR /\ y <= MAXYEAR /\ m >= 1 /\ m <= 12 /\ d >= 1 /\ d <= DaysInMonth(y, m)
    THEN [ok |-> TRUE, year |-> y, month |-> m, day |-> d]
    ELSE DateError

\* a < b, a <= b on dates.
DateLess(a, b) ==
    \/ a.year < b.year
    \/ a.year = b.year /\ a.month < b.month
    \/ a.year = b.year /\ a.month = b.month /\ a.day < b.day

DateLeq(a, b) == a = b \/ DateLess(a, b)

\* date.isoformat(): "YYYY-MM-DD".
IsoFormat(d) == FormatInt(d.year, 4) \o <<"-">> \o FormatInt(d.month, 2) \o <<"-">> \o FormatInt(d.day, 2)

\* datetime.date.fromisoformat(t), CPython 3.11 and later (the script uses
\* datetime.UTC): t is 7, 8 or 10 characters long; four digits of year, an
\* optional "-", two digits of month, a "-" if and only if the first one was
\* there, two digits of day; anything after the day is not looked at. The ISO
\* week forms ("YYYY-Www-D") are not modelled: no input of the model holds
\* a "W" at the month position.
FromIsoFormat(t) ==
    IF Len(t) \notin {7, 8, 10} THEN DateError
    ELSE IF ~AllDigits(SubSeq(t, 1, 4)) THEN DateError
    ELSE LET sep == IF t[5] = "-" THEN 1 ELSE 0
             mpos == 5 + sep
             dpos == mpos + 2 + sep
         IN  IF Len(t) < mpos + 1 \/ ~AllDigits(SubSeq(t, mpos, mpos + 1)) THEN DateError
             ELSE IF sep = 1 /\ (Len(t) < mpos + 2 \/ t[mpos + 2] # "-") THEN DateError
             ELSE IF Len(t) < dpos + 1 \/ ~AllDigits(SubSeq(t, dpos, dpos + 1)) THEN DateError
             ELSE MkDate(DigitsVal(SubSeq(t, 1, 4)),
                         DigitsVal(SubSeq(t, mpos, mpos + 1)),
                         DigitsVal(SubSeq(t, dpos, dpos + 1)))

\* parse_iso_date(s): only the first ten characters are parsed.
parse_iso_date(s) == FromIsoFormat(Prefix(s, 10))

-----------------------------------------------------------------------------
(* list.sort(): a stable sort, here by insertion from the left             *)

\* a < b for sort keys: a key is a sequence of integers, compared
\* lexicographically (the code points of a str, the year, month, day of a date).
RECURSIVE KeyLess(_, _)
KeyLess(a, b) ==
    IF b = <<>> THEN FALSE
    ELSE IF a = <<>> THEN TRUE
    ELSE IF Head(a) # Head(b) THEN Head(a) < Head(b)
    ELSE KeyLess(Tail(a), Tail(b))

\* The sort key of a str value and of a date.
TextKey(s) == [i \in 1..Len(s) |-> Ord(s[i])]

DateKey(d) == <<d.year, d.month, d.day>>

\* Whether key a must come before key b (reverse: descending order).
Before(a, b, reverse) == IF reverse THEN KeyLess(b, a) ELSE KeyLess(a, b)

\* ps, sorted, with p put after the last element that need not come after p.
RECURSIVE InsertSorted(_, _, _)
InsertSorted(ps, p, reverse) ==
    IF ps = <<>> THEN <<p>>
    ELSE IF Before(p.key, ps[Len(ps)].key, reverse)
    THEN InsertSorted(SubSeq(ps, 1, Len(ps) - 1), p, reverse) \o <<ps[Len(ps)]>>
    ELSE ps \o <<p>>

RECURSIVE StableSort(_, _)
StableSort(ps, reverse) ==
    IF ps = <<>> THEN <<>>
    ELSE InsertSorted(StableSort(SubSeq(ps, 1, Len(ps) - 1), reverse), ps[Len(ps)], reverse)

\* A list left in the order it was built in (the sort call left out).
SortByKey_unsorted(xs, keys, reverse) == xs

\* xs.sort(key=..., reverse=...) where keys[i] is the key of xs[i]; equal keys
\* keep their order, also under reverse.
SortByKey(xs, keys, reverse) ==
    LET sorted == StableSort([i \in 1..Len(xs) |-> [key |-> keys[i], val |-> xs[i]]], reverse)
    IN  [i \in 1..Len(xs) |-> sorted[i].val]

-----------------------------------------------------------------------------
(* The date selector                                                       *)

TMDB_RELEASE_TYPE_THEATRICAL == 3

\* The selector's "no bucket" (Python None in the bucket position).
NoBucket == "None"

\* release_dates_payload.get("results", [])
PayloadResults(p) == IF "results" \in DOMAIN p THEN p.results ELSE <<>>

\* The first region entry taken whatever its region code.
FirstGB_any(results) == IF results = <<>> THEN 0 ELSE 1

\* The first region entry whose iso_3166_1 is "GB": its index, 0 if there is none.
FirstGB(results) ==
    LET hits == {i \in 1..Len(results) :
                    "iso_3166_1" \in DOMAIN results[i] /\ results[i].iso_3166_1 = "GB"}
    IN  IF hits = {} THEN 0 ELSE CHOOSE i \in hits : \A j \in hits : i <= j

\* gb.get("release_dates", [])
RegionDates(gb) == IF "release_dates" \in DOMAIN gb THEN gb.release_dates ELSE <<>>

\* The condition of line 52: a theatrical entry with a non-empty date string.
IsTheatricalWithDate(rd) ==
    /\ "type" \in DOMAIN rd
    /\ rd.type = TMDB_RELEASE_TYPE_THEATRICAL
    /\ Truthy(Get(rd, "release_date"))

\* The loop left at the first date string that does not parse (the try
\* around the loop instead of inside it).
RECURSIVE TheatricalDates_abort(_)
TheatricalDates_abort(rds) ==
    IF rds = <<>> THEN <<>>
    ELSE LET rd == rds[1]
         IN  IF ~IsTheatricalWithDate(rd) THEN TheatricalDates_abort(Tail(rds))
             ELSE IF parse_iso_date(rd.release_date).ok
             THEN <<parse_iso_date(rd.release_date)>> \o TheatricalDates_abort(Tail(rds))
             ELSE <<>>

\* The loop of lines 50-57: the dates parsed, in payload order.
RECURSIVE TheatricalDates(_)
TheatricalDates(rds) ==
    IF rds = <<>> THEN <<>>
    ELSE LET rest == TheatricalDates(SubSeq(rds, 1, Len(rds) - 1))
             rd == rds[Len(rds)]
         IN  IF IsTheatricalWithDate(rd) /\ parse_iso_date(rd.release_date).ok
             THEN rest \o <<parse_iso_date(rd.release_date)>>
             ELSE rest

\* The warnings of line 57: the date strings that could not be parsed, in order.
RECURSIVE ParseWarnings(_)
ParseWarnings(rds) ==
    IF rds = <<>> THEN <<>>
    ELSE LET rest == ParseWarnings(SubSeq(rds, 1, Len(rds) - 1))
             rd == rds[Len(rds)]
         IN  IF IsTheatricalWithDate(rd) /\ ~parse_iso_date(rd.release_date).ok
             THEN rest \o <<rd.release_date>>
             ELSE rest

\* The comparison the wrong way round (d <= today).
FutureDates_inverted(theatrical, ref) == SelectSeq(theatrical, LAMBDA d : DateLeq(d, ref))

\* The dates strictly after the reference date (d > today).
FutureDates_strict(theatrical, ref) == SelectSeq(theatrical, LAMBDA d : DateLess(ref, d))

\* [d for d in theatrical if d >= today]
FutureDates(theatrical, ref) == SelectSeq(theatrical, LAMBDA d : DateLeq(ref, d))

choose_gb_theatrical_date(p, ref) ==
    LET results == PayloadResults(p)
        g == FirstGB(results)
    IN  IF g = 0 THEN [date |-> None, bucket |-> NoBucket, warnings |-> <<>>]
        ELSE LET rds == RegionDates(results[g])
                 parsed == TheatricalDates(rds)
                 theatrical == SortByKey(parsed, [i \in 1..Len(parsed) |-> DateKey(parsed[i])], FALSE)
                 future == FutureDates(theatrical, ref)
                 warned == ParseWarnings(rds)
             IN  IF theatrical = <<>> THEN [date |-> None, bucket |-> NoBucket, warnings |-> warned]
                 ELSE IF future # <<>>
                 THEN [date |-> IsoFormat(future[1]), bucket |-> "upcoming", warnings |-> warned]
                 ELSE [date |-> IsoFormat(theatrical[1]), bucket |-> "released", warnings |-> warned]

-----------------------------------------------------------------------------
(* The calendar builder                                                    *)

\* The string literals of build_ics_events, character by character.
L_BEGIN_VCALENDAR ==
    <<"B", "E", "G", "I", "N", ":", "V", "C", "A", "L", "E", "N", "D", "A", "R">>

L_VERSION ==
    <<"V", "E", "R", "S", "I", "O", "N", ":", "2", ".", "0">>

L_PRODID ==
    <<"P", "R", "O", "D", "I", "D", ":", "-", "/", "/", "F", "i", "l", "m", " ", "R", "e", "l", "e", "a", "s", "e", " ", "T", "r", "a", "c", "k", "e", "r", "/", "/">>

L_EN ==
    <<"/", "/", "E", "N">>

L_CALSCALE ==
    <<"C", "A", "L", "S", "C", "A", "L", "E", ":", "G", "R", "E", "G", "O", "R", "I", "A", "N">>

L_METHOD ==
    <<"M", "E", "T", "H", "O", "D", ":", "P", "U", "B", "L", "I", "S", "H">>

L_CALNAME ==
    <<"X", "-", "W", "R", "-", "C", "A", "L", "N", "A", "M", "E", ":">>

L_FILM_RELEASES ==
    <<"'", "s", " ", "F", "i", "l", "m", " ", "R", "e", "l", "e", "a", "s", "e", "s">>

L_CALDESC ==
    <<"X", "-", "W", "R", "-", "C", "A", "L", "D", "E", "S", "C", ":", "U", "K", " ", "t", "h", "e", "a", "t", "r", "i", "c", "a", "l", " ", "r", "e", "l", "e", "a", "s", "e", "s", " ", "t", "r", "a", "c", "k", "e", "d", " ", "b", "y", " ">>

L_TMDB_DASH ==
    <<"t", "m", "d", "b", "-">>

L_AT_TRACKER ==
    <<"@", "f", "i", "l", "m", "-", "r", "e", "l", "e", "a", "s", "e", "-", "t", "r", "a", "c", "k", "e", "r">>

L_UK_RELEASE ==
    <<" ", "(", "U", "K", " ", "t", "h", "e", "a", "t", "r", "i", "c", "a", "l", " ", "r", "e", "l", "e", "a", "s", "e", ")">>

L_TMDB_COLON ==
    <<"T", "M", "D", "b", ":", " ">>

L_BEGIN_VEVENT ==
    <<"B", "E", "G", "I", "N", ":", "V", "E", "V", "E", "N", "T">>

L_UID ==
    <<"U", "I", "D", ":">>

L_DTSTAMP ==
    <<"D", "T", "S", "T", "A", "M", "P", ":">>

L_DTSTART ==
    <<"D", "T", "S", "T", "A", "R", "T", ";", "V", "A", "L", "U", "E", "=", "D", "A", "T", "E", ":">>

L_DTEND ==
    <<"D", "T", "E", "N", "D", ";", "V", "A", "L", "U", "E", "=", "D", "A", "T", "E", ":">>

L_SUMMARY ==
    <<"S", "U", "M", "M", "A", "R", "Y", ":">>

L_DESCRIPTION ==
    <<"D", "E", "S", "C", "R", "I", "P", "T", "I", "O", "N", ":">>

L_STATUS ==
    <<"S", "T", "A", "T", "U", "S", ":", "C", "O", "N", "F", "I", "R", "M", "E", "D">>

L_TRANSP ==
    <<"T", "R", "A", "N", "S", "P", ":", "T", "R", "A", "N", "S", "P", "A", "R", "E", "N", "T">>

L_END_VEVENT ==
    <<"E", "N", "D", ":", "V", "E", "V", "E", "N", "T">>

L_END_VCALENDAR ==
    <<"E", "N", "D", ":", "V", "C", "A", "L", "E", "N", "D", "A", "R">>

\* What stands for a text where the code raises an exception instead.
Raised == <<"Raised">>

\* s.split(sep) for a one-character separator.
RECURSIVE Split(_, _)
Split(s, sep) ==
    IF \A i \in 1..Len(s) : s[i] # sep THEN <<s>>
    ELSE LET k == CHOOSE i \in 1..Len(s) : s[i] = sep /\ \A j \in 1..(i - 1) : s[j] # sep
         IN  <<SubSeq(s, 1, k - 1)>> \o Split(SubSeq(s, k + 1, Len(s)), sep)

\* sep.join(parts)
RECURSIVE Join(_, _)
Join(parts, sep) ==
    IF parts = <<>> THEN <<>>
    ELSE IF Len(parts) = 1 THEN parts[1]
    ELSE Join(SubSeq(parts, 1, Len(parts) - 1), sep) \o sep \o parts[Len(parts)]

\* s.replace(old, new) for a one-character old.
RECURSIVE Replace(_, _, _)
Replace(s, old, new) ==
    IF s = <<>> THEN <<>>
    ELSE (IF Head(s) = old THEN new ELSE <<Head(s)>>) \o Replace(Tail(s), old, new)

\* The escaping without the comma step.
ics_escape_no_comma(s) == Replace(Replace(Replace(s, "\\", <<"\\", "\\">>), ";", <<"\\", ";">>), "\n", <<"\\", "n">>)

\* ics_escape: the four replace calls, in the order of line 100.
ics_escape(s) ==
    Replace(Replace(Replace(Replace(s, "\\", <<"\\", "\\">>), ";", <<"\\", ";">>), ",", <<"\\", ",">>), "\n", <<"\\", "n">>)

\* date.toordinal() and date.fromordinal() as CPython computes them.
DaysBeforeYear(y) == (y - 1) * 365 + (y - 1) \div 4 - (y - 1) \div 100 + (y - 1) \div 400

RECURSIVE DaysBeforeMonth(_, _)
DaysBeforeMonth(y, m) == IF m = 1 THEN 0 ELSE DaysBeforeMonth(y, m - 1) + DaysInMonth(y, m - 1)

ToOrdinal(d) == DaysBeforeYear(d.year) + DaysBeforeMonth(d.year, d.month) + d.day

MaxOrdinal == DaysBeforeYear(MAXYEAR + 1)

FromOrdinal(ord) ==
    LET n0 == ord - 1
        n400 == n0 \div 146097
        r400 == n0 % 146097
        n100 == r400 \div 36524
        r100 == r400 % 36524
        n4 == r100 \div 1461
        r4 == r100 % 1461
        n1 == r4 \div 365
        n == r4 % 365
        year == n400 * 400 + 1 + n100 * 100 + n4 * 4 + n1
    IN  IF n1 = 4 \/ n100 = 4 THEN MkDate(year - 1, 12, 31)
        ELSE LET month == CHOOSE k \in 1..12 :
                              DaysBeforeMonth(year, k) <= n /\ n < DaysBeforeMonth(year, k) + DaysInMonth(year, k)
             IN  MkDate(year, month, n - DaysBeforeMonth(year, month) + 1)

\* The day number plus one, in the same month.
PlusOneDay_naive(d) == [d EXCEPT !.day = d.day + 1]

\* start + datetime.timedelta(days=1): DateError where it raises OverflowError.
PlusOneDay(d) == IF ToOrdinal(d) + 1 > MaxOrdinal THEN DateError ELSE FromOrdinal(ToOrdinal(d) + 1)

\* yyyymmdd(dt)
yyyymmdd(dt) == FormatInt(dt.year, 4) \o FormatInt(dt.month, 2) \o FormatInt(dt.day, 2)

\* Line 88-89: the release date split at "-" into three integers, made a date.
\* int() is modelled on runs of ASCII digits, which is what isoformat gives.
StartDate(release_date) ==
    LET parts == Split(release_date, "-")
    IN  IF Len(parts) # 3 \/ \E i \in 1..3 : (parts[i] = <<>> \/ ~AllDigits(parts[i])) THEN DateError
        ELSE MkDate(DigitsVal(parts[1]), DigitsVal(parts[2]), DigitsVal(parts[3]))

\* Lines 92-94: the three free-text values of an event, before escaping.
\* The identifier without the user in it.
EventUid_nouser(m, username) == L_TMDB_DASH \o IntStr(m.tmdb_id) \o L_AT_TRACKER

EventUid(m, username) == L_TMDB_DASH \o IntStr(m.tmdb_id) \o <<"-">> \o username \o L_AT_TRACKER

EventSummary(m) == m.title \o L_UK_RELEASE

EventDesc(m) == L_TMDB_COLON \o m.tmdb_url

\* Lines 102-111: the ten lines of one event.
EventLines(m, dtstamp_utc, username) ==
    << L_BEGIN_VEVENT,
       L_UID \o ics_escape(EventUid(m, username)),
       L_DTSTAMP \o dtstamp_utc,
       L_DTSTART \o yyyymmdd(StartDate(m.release_date)),
       L_DTEND \o yyyymmdd(PlusOneDay(StartDate(m.release_date))),
       L_SUMMARY \o ics_escape(EventSummary(m)),
       L_DESCRIPTION \o ics_escape(EventDesc(m)),
       L_STATUS,
       L_TRANSP,
       L_END_VEVENT >>

\* The events built last movie first.
RECURSIVE AllEventLines_reversed(_, _, _)
AllEventLines_reversed(movies, dtstamp_utc, username) ==
    IF movies = <<>> THEN <<>>
    ELSE AllEventLines_reversed(Tail(movies), dtstamp_utc, username) \o EventLines(Head(movies), dtstamp_utc, username)

\* The loop of lines 87-111: the events' lines, in the order of the movies.
RECURSIVE AllEventLines(_, _, _)
AllEventLines(movies, dtstamp_utc, username) ==
    IF movies = <<>> THEN <<>>
    ELSE EventLines(Head(movies), dtstamp_utc, username) \o AllEventLines(Tail(movies), dtstamp_utc, username)

\* The header lines without the user in them.
HeaderLines_nouser(username) ==
    << L_BEGIN_VCALENDAR,
       L_VERSION,
       L_PRODID \o L_EN,
       L_CALSCALE,
       L_METHOD,
       L_CALNAME \o L_FILM_RELEASES,
       L_CALDESC >>

\* Lines 79-85: the seven header lines.
HeaderLines(username) ==
    << L_BEGIN_VCALENDAR,
       L_VERSION,
       L_PRODID \o username \o L_EN,
       L_CALSCALE,
       L_METHOD,
       L_CALNAME \o username \o L_FILM_RELEASES,
       L_CALDESC \o username >>

\* Whether the loop raises: a release date that is no date, or no next day.
EventRaises(m) == ~StartDate(m.release_date).ok \/ ~PlusOneDay(StartDate(m.release_date)).ok

build_ics_events(movies, dtstamp_utc, username) ==
    IF \E i \in 1..Len(movies) : EventRaises(movies[i]) THEN Raised
    ELSE Join(HeaderLines(username) \o AllEventLines(movies, dtstamp_utc, username) \o <<L_END_VCALENDAR>>, <<"\n">>)
            \o <<"\n">>

-----------------------------------------------------------------------------
(* The builder of the single-user script bin/update, which takes no user   *)
(* identifier. The script is not among the sources; its builder is         *)
(* modelled from the specification and from tests/test_update.py, which    *)
(* fix the lines below and leave open whether there are further header     *)
(* lines.                                                                  *)

L_PRODID_GENERIC ==
    <<"P", "R", "O", "D", "I", "D", ":", "-", "/", "/", "F", "i", "l", "m", " ", "R", "e", "l", "e", "a", "s", "e", " ", "T", "r", "a", "c", "k", "e", "r", "/", "/", "E", "N">>

GenericUid(m) == L_TMDB_DASH \o IntStr(m.tmdb_id) \o L_AT_TRACKER

GenericEventLines(m, dtstamp_utc) ==
    [EventLines(m, dtstamp_utc, <<>>) EXCEPT ![2] = L_UID \o ics_escape(GenericUid(m))]

RECURSIVE AllGenericEventLines(_, _)
AllGenericEventLines(movies, dtstamp_utc) ==
    IF movies = <<>> THEN <<>>
    ELSE GenericEventLines(Head(movies), dtstamp_utc) \o AllGenericEventLines(Tail(movies), dtstamp_utc)

GenericHeaderLines == <<L_BEGIN_VCALENDAR, L_VERSION, L_PRODID_GENERIC, L_CALSCALE, L_METHOD>>

build_ics_events_generic(movies, dtstamp_utc) ==
    IF \E i \in 1..Len(movies) : EventRaises(movies[i]) THEN Raised
    ELSE Join(GenericHeaderLines \o AllGenericEventLines(movies, dtstamp_utc) \o <<L_END_VCALENDAR>>, <<"\n">>)
            \o <<"\n">>

-----------------------------------------------------------------------------
(* Watchlist processing and the main run                                  *)

IMG_BASE ==
    <<"h", "t", "t", "p", "s", ":", "/", "/", "i", "m", "a", "g", "e", ".", "t", "m", "d", "b", ".", "o", "r", "g", "/", "t", "/", "p", "/", "w", "3", "4", "2">>

L_MOVIE_URL ==
    <<"h", "t", "t", "p", "s", ":", "/", "/", "w", "w", "w", ".", "t", "h", "e", "m", "o", "v", "i", "e", "d", "b", ".", "o", "r", "g", "/", "m", "o", "v", "i", "e", "/">>

L_TMDB_SPACE ==
    <<"T", "M", "D", "b", " ">>

\* A JSON value is [type, fields]: type "object" with the object's keys as
\* fields, or another JSON type. A catalog answer is [kind, body]: kind
\* "exception" (http_get_json raised), "nonobject" (JSON that is no object),
\* "object" with the object as body, or "notfetched" (no request was made).
IsObject(v) == v.type = "object"

\* not tmdb_id (line 135): the id is missing, null or 0.
HasId(item) == "tmdb_id" \in DOMAIN item.fields /\ item.fields.tmdb_id # 0

\* isinstance(details, dict), line 142.
DetailsValid(d) == d.kind = "object"

\* The check of line 145 without the "results" test.
ReleasesValid_anyobject(r) == r.kind = "object"

\* isinstance(releases, dict) and "results" in releases, line 145.
ReleasesValid(r) == r.kind = "object" /\ "results" \in DOMAIN r.body

\* With no try/except around the fetches: an exception leaves the loop.
ItemOutcome_uncaught(item, d, r) ==
    IF ~IsObject(item) THEN "raise"
    ELSE IF ~HasId(item) THEN "skip"
    ELSE IF d.kind = "exception" \/ r.kind = "exception" THEN "raise"
    ELSE IF ~DetailsValid(d) THEN "invalid_details"
    ELSE IF ~ReleasesValid(r) THEN "invalid_releases"
    ELSE "ok"

\* What one pass of the loop of lines 133-168 comes to for an item and the
\* two catalog answers: "raise" (item.get on a non-object, outside the try),
\* "skip" (no id), "error" (an exception caught at line 166), the two invalid
\* shapes, or "ok".
ItemOutcome(item, d, r) ==
    IF ~IsObject(item) THEN "raise"
    ELSE IF ~HasId(item) THEN "skip"
    ELSE IF d.kind = "exception" \/ r.kind = "exception" THEN "error"
    ELSE IF ~DetailsValid(d) THEN "invalid_details"
    ELSE IF ~ReleasesValid(r) THEN "invalid_releases"
    ELSE "ok"

\* Line 153: the first non-empty of title, original_title, title_hint, "TMDb <id>".
ResolveTitle(item, details) ==
    IF Truthy(Get(details, "title")) THEN details.title
    ELSE IF Truthy(Get(details, "original_title")) THEN details.original_title
    ELSE IF Truthy(Get(item.fields, "title_hint")) THEN item.fields.title_hint
    ELSE L_TMDB_SPACE \o IntStr(item.fields.tmdb_id)

\* Lines 151-157 and 164: the movie dict; release_date is None in the tbd bucket.
MakeMovie(item, details, sel) ==
    [tmdb_id |-> item.fields.tmdb_id,
     title |-> ResolveTitle(item, details),
     release_date |-> IF sel.bucket \in {"upcoming", "released"} THEN sel.date ELSE None,
     poster_url |-> IF Truthy(Get(details, "poster_path")) THEN IMG_BASE \o details.poster_path ELSE None,
     tmdb_url |-> L_MOVIE_URL \o IntStr(item.fields.tmdb_id)]

\* Lines 159-165: the bucket a movie is appended to.
BucketOf(sel) == IF sel.bucket = "upcoming" THEN "upcoming" ELSE IF sel.bucket = "released" THEN "released" ELSE "tbd"

\* The tbd bucket sorted by title as it stands.
SortTbd_raw(ms) == SortByKey(ms, [i \in 1..Len(ms) |-> TextKey(ms[i].title)], FALSE)

\* Lines 171-173: the three sorts.
SortUpcoming(ms) == SortByKey(ms, [i \in 1..Len(ms) |-> TextKey(ms[i].release_date)], FALSE)

SortReleased(ms) == SortByKey(ms, [i \in 1..Len(ms) |-> TextKey(ms[i].release_date)], TRUE)

SortTbd(ms) == SortByKey(ms, [i \in 1..Len(ms) |-> TextKey(Lower(ms[i].title))], FALSE)

\* sorted(users), line 228.
SortedUsers(us) == SortByKey(us, [i \in 1..Len(us) |-> TextKey(us[i])], FALSE)

\* A file that has not been written in this run.
NotWritten ==
    [written |-> FALSE,
     json |-> [username |-> <<>>, upcoming |-> <<>>, tbd |-> <<>>, released |-> <<>>],
     ics |-> <<>>]

\* The index page has not been written.
NoIndex == [written |-> FALSE, users |-> <<>>]

\* No date: main has not read the clock yet.
NoDate == DateError

-----------------------------------------------------------------------------
(* The three kinds of run share one state; each leaves the others' idle   *)

\* The selector has not been called for the current reference date.
NotRun == [date |-> None, bucket |-> "not run", warnings |-> <<>>]

\* build_ics_events has not been called.
NotBuilt == <<"NotBuilt">>

\* The builder's variables while it is not the builder that runs.
IcsIdle ==
    /\ ics_movies = <<>>
    /\ ics_stamp = <<>>
    /\ ics_user = <<>>
    /\ ics_doc = NotBuilt
    /\ other_user = <<>>
    /\ other_doc = NotBuilt
    /\ generic_doc = NotBuilt

\* The selector's variables while it is not the selector that runs.
SelIdle ==
    /\ payload = [id |-> 123]
    /\ today = MkDate(2026, 1, 1)
    /\ chosen = NotRun
    /\ previous = NotRun

\* The file stems a run may meet: two users, and the migrated default.json.
Stems ==
    { <<"a", "l">>, <<"B", "o">>, <<"d", "e", "f", "a", "u", "l", "t">> }

\* The main run's variables while it is not main that runs.
MainIdle ==
    /\ api_key = FALSE
    /\ disk = [dir |-> FALSE, files |-> <<>>, old |-> [exists |-> FALSE, content |-> [kind |-> "vanished", items |-> <<>>]]]
    /\ pc = "idle"
    /\ exit_status = "running"
    /\ run_today = NoDate
    /\ run_stamp = <<>>
    /\ watchlist_files = <<>>
    /\ done_files = 0
    /\ users = <<>>
    /\ cur_user = <<>>
    /\ watch = <<>>
    /\ pos = 0
    /\ fetched = <<>>
    /\ upcoming = <<>>
    /\ released = <<>>
    /\ tbd = <<>>
    /\ returned = "none"
    /\ site = [u \in Stems |-> NotWritten]
    /\ index = NoIndex
    /\ stderr = <<>>

-----------------------------------------------------------------------------
(* Selector runs: choose_gb_theatrical_date applied to bounded payloads    *)

\* The longest release_dates list of a GB entry.
MaxDates == 3

\* The date strings the payloads are built from, each with the calendar date
\* it denotes (written out, not parsed): a bare date, timestamps with a time
\* and zone suffix, a string that is no date, and a day that does not exist.
DateSamples ==
    << 
       [text |-> <<"2", "0", "2", "5", "-", "1", "2", "-", "2", "5">>,
        valid |-> TRUE, iso |-> <<"2", "0", "2", "5", "-", "1", "2", "-", "2", "5">>, ymd |-> <<2025, 12, 25>>],
       [text |-> <<"2", "0", "2", "6", "-", "0", "1", "-", "0", "1", "T", "0", "0", ":", "0", "0", ":", "0", "0", ".", "0", "0", "0", "Z">>,
        valid |-> TRUE, iso |-> <<"2", "0", "2", "6", "-", "0", "1", "-", "0", "1">>, ymd |-> <<2026, 1, 1>>],
       [text |-> <<"2", "0", "2", "6", "-", "0", "4", "-", "1", "7", "T", "0", "0", ":", "0", "0", ":", "0", "0", ".", "0", "0", "0", "Z">>,
        valid |-> TRUE, iso |-> <<"2", "0", "2", "6", "-", "0", "4", "-", "1", "7">>, ymd |-> <<2026, 4, 17>>],
       [text |-> <<"2", "0", "2", "6", "-", "0", "5", "-", "2", "0">>,
        valid |-> TRUE, iso |-> <<"2", "0", "2", "6", "-", "0", "5", "-", "2", "0">>, ymd |-> <<2026, 5, 20>>],
       [text |-> <<"n", "o", "t", "-", "a", "-", "d", "a", "t", "e">>,
        valid |-> FALSE, iso |-> None, ymd |-> <<0, 0, 0>>],
       [text |-> <<"2", "0", "2", "6", "-", "0", "2", "-", "3", "0">>,
        valid |-> FALSE, iso |-> None, ymd |-> <<0, 0, 0>>] >>

DateStrings == {DateSamples[i].text : i \in 1..Len(DateSamples)}

SampleOf(t) == DateSamples[CHOOSE i \in 1..Len(DateSamples) : DateSamples[i].text = t]

\* A release_dates entry: theatrical with each date string, theatrical with an
\* empty date string or none, another release type, and no type at all.
RdEntries ==
    {[type |-> TMDB_RELEASE_TYPE_THEATRICAL, release_date |-> t] : t \in DateStrings \cup {<<>>}}
        \cup {[type |-> TMDB_RELEASE_TYPE_THEATRICAL],
              [type |-> 1, release_date |-> DateSamples[4].text],
              [release_date |-> DateSamples[1].text]}

RdLists == UNION {[1..n -> RdEntries] : n \in 0..MaxDates}

OtherRegion == [iso_3166_1 |-> "US", release_dates |-> <<[type |-> TMDB_RELEASE_TYPE_THEATRICAL, release_date |-> DateSamples[3].text]>>]

SecondGB == [iso_3166_1 |-> "GB", release_dates |-> <<[type |-> TMDB_RELEASE_TYPE_THEATRICAL, release_date |-> DateSamples[4].text]>>]

\* The payloads: no "results" key, no region, only another region, a GB entry
\* without a release_dates key, and a GB entry alone, after another region,
\* and before a second GB entry.
Payloads ==
    {[id |-> 123], [id |-> 123, results |-> <<>>], [id |-> 123, results |-> <<OtherRegion>>],
     [id |-> 123, results |-> <<[iso_3166_1 |-> "GB"]>>]}
        \cup {[id |-> 123, results |-> <<[iso_3166_1 |-> "GB", release_dates |-> l]>>] : l \in RdLists}
        \cup {[id |-> 123, results |-> <<OtherRegion, [iso_3166_1 |-> "GB", release_dates |-> l]>>] : l \in RdLists}
        \cup {[id |-> 123, results |-> <<[iso_3166_1 |-> "GB", release_dates |-> l], SecondGB>>] : l \in RdLists}

\* The reference dates: before, on, between and after the sample dates.
RefDates == {MkDate(2025, 12, 1), MkDate(2026, 1, 1), MkDate(2026, 4, 18), MkDate(2026, 12, 31)}

SelInit ==
    /\ payload \in Payloads
    /\ today \in RefDates
    /\ chosen = NotRun
    /\ previous = NotRun
    /\ IcsIdle
    /\ MainIdle

\* One run: the selector is called with the payload and the reference date.
Select ==
    /\ chosen = NotRun
    /\ chosen' = choose_gb_theatrical_date(payload, today)
    /\ UNCHANGED <<payload, today, previous, icsvars, mainvars>>

\* The next run, on a later day, over the same payload.
NextRun ==
    /\ chosen # NotRun
    /\ \E d \in RefDates : DateLess(today, d) /\ today' = d
    /\ previous' = chosen
    /\ chosen' = NotRun
    /\ UNCHANGED <<payload, icsvars, mainvars>>

SelNext == Select \/ NextRun

SpecSelect == SelInit /\ [][SelNext]_vars

-----------------------------------------------------------------------------
(* Builder runs: build_ics_events applied to bounded movie lists           *)

\* The longest movie list handed to the builder.
MaxMovies == 2

\* The movies: titles with a semicolon and a comma, a backslash, a line break;
\* a catalog URL with a comma and a semicolon; two movies of one catalog id;
\* release dates at a month end, a year end, the end of February, a leap day
\* and the last day date can hold.
SampleMovies ==
    { [tmdb_id |-> 123,
       title |-> <<"T", "e", "s", "t", ";", " ", "M", "o", "v", "i", "e", ",", " ", "P", "a", "r", "t", " ", "2">>,
       release_date |-> <<"2", "0", "2", "6", "-", "0", "4", "-", "3", "0">>,
       tmdb_url |-> <<"h", "t", "t", "p", "s", ":", "/", "/", "w", "w", "w", ".", "t", "h", "e", "m", "o", "v", "i", "e", "d", "b", ".", "o", "r", "g", "/", "m", "o", "v", "i", "e", "/", "1", "2", "3">>],
      [tmdb_id |-> 456,
       title |-> <<"T", "e", "s", "t", "\\", "M", "o", "v", "i", "e">>,
       release_date |-> <<"2", "0", "2", "6", "-", "1", "2", "-", "3", "1">>,
       tmdb_url |-> <<"h", "t", "t", "p", "s", ":", "/", "/", "w", "w", "w", ".", "t", "h", "e", "m", "o", "v", "i", "e", "d", "b", ".", "o", "r", "g", "/", "m", "o", "v", "i", "e", "/", "4", "5", "6">>],
      [tmdb_id |-> 7,
       title |-> <<"T", "w", "o", "\n", "L", "i", "n", "e", "s">>,
       release_date |-> <<"2", "0", "2", "4", "-", "0", "2", "-", "2", "8">>,
       tmdb_url |-> <<"h", "t", "t", "p", "s", ":", "/", "/", "t", ".", "e", "x", "a", "m", "p", "l", "e", "/", "m", "?", "a", "=", "1", ",", "2", ";", "b">>],
      [tmdb_id |-> 123,
       title |-> <<"M", "o", "v", "i", "e", " ", "O", "n", "e">>,
       release_date |-> <<"2", "0", "2", "6", "-", "0", "4", "-", "1", "7">>,
       tmdb_url |-> <<"h", "t", "t", "p", "s", ":", "/", "/", "w", "w", "w", ".", "t", "h", "e", "m", "o", "v", "i", "e", "d", "b", ".", "o", "r", "g", "/", "m", "o", "v", "i", "e", "/", "1", "2", "3">>],
      [tmdb_id |-> 88,
       title |-> <<"a">>,
       release_date |-> <<"2", "0", "2", "3", "-", "0", "2", "-", "2", "8">>,
       tmdb_url |-> <<"h", "t", "t", "p", "s", ":", "/", "/", "w", "w", "w", ".", "t", "h", "e", "m", "o", "v", "i", "e", "d", "b", ".", "o", "r", "g", "/", "m", "o", "v", "i", "e", "/", "8", "8">>],
      [tmdb_id |-> 29,
       title |-> <<"L", "e", "a", "p">>,
       release_date |-> <<"2", "0", "2", "4", "-", "0", "2", "-", "2", "9">>,
       tmdb_url |-> <<"h", "t", "t", "p", "s", ":", "/", "/", "w", "w", "w", ".", "t", "h", "e", "m", "o", "v", "i", "e", "d", "b", ".", "o", "r", "g", "/", "m", "o", "v", "i", "e", "/", "2", "9">>],
      [tmdb_id |-> 9,
       title |-> <<"L", "a", "s", "t">>,
       release_date |-> <<"9", "9", "9", "9", "-", "1", "2", "-", "3", "1">>,
       tmdb_url |-> <<"h", "t", "t", "p", "s", ":", "/", "/", "w", "w", "w", ".", "t", "h", "e", "m", "o", "v", "i", "e", "d", "b", ".", "o", "r", "g", "/", "m", "o", "v", "i", "e", "/", "9">>] }

\* The user identifiers (watchlist file stems): plain, with a comma, and with
\* a semicolon and a backslash. A file name with a line break is not modelled.
SampleUsers ==
    { <<"a", "l", "i", "c", "e">>,
      <<"a", ",", "b">>,
      <<"x", ";", "y", "\\", "z">> }

SampleStamp ==
    <<"2", "0", "2", "6", "0", "1", "0", "1", "T", "0", "0", "0", "0", "0", "0", "Z">>

IcsInit ==
    /\ ics_movies \in UNION {[1..n -> SampleMovies] : n \in 0..MaxMovies}
    /\ ics_stamp = SampleStamp
    /\ ics_user \in SampleUsers
    /\ ics_doc = NotBuilt
    /\ other_user = <<>>
    /\ other_doc = NotBuilt
    /\ generic_doc = NotBuilt
    /\ SelIdle
    /\ MainIdle

\* One call of build_ics_events.
Build ==
    /\ ics_doc = NotBuilt
    /\ ics_doc' = build_ics_events(ics_movies, ics_stamp, ics_user)
    /\ UNCHANGED <<ics_movies, ics_stamp, ics_user, other_user, other_doc, generic_doc, selvars, mainvars>>

\* A second call, with the same movies and stamp, for another user.
BuildOther ==
    /\ ics_doc # NotBuilt
    /\ other_doc = NotBuilt
    /\ \E u \in SampleUsers \ {ics_user} :
          /\ other_user' = u
          /\ other_doc' = build_ics_events(ics_movies, ics_stamp, u)
    /\ UNCHANGED <<ics_movies, ics_stamp, ics_user, ics_doc, generic_doc, selvars, mainvars>>

\* A call of the builder of bin/update, with the same movies and stamp and
\* no user identifier.
BuildGeneric ==
    /\ other_doc # NotBuilt
    /\ generic_doc = NotBuilt
    /\ generic_doc' = build_ics_events_generic(ics_movies, ics_stamp)
    /\ UNCHANGED <<ics_movies, ics_stamp, ics_user, ics_doc, other_user, other_doc, selvars, mainvars>>

IcsNext == Build \/ BuildOther \/ BuildGeneric

SpecIcs == IcsInit /\ [][IcsNext]_vars

-----------------------------------------------------------------------------
(* Main runs: main over the watchlist files, with the catalog's answers   *)

\* The most watchlist items the files of one run hold together.
MaxItems == 2

\* The watchlist items: an id with a title hint, an id without, no id, and a
\* JSON value that is no object.
SampleItems ==
    { [type |-> "object", fields |-> [tmdb_id |-> 7, title_hint |-> <<"A", "b">>]],
      [type |-> "object", fields |-> [tmdb_id |-> 12]],
      [type |-> "object", fields |-> [title_hint |-> <<"x">>]],
      [type |-> "number", fields |-> [value |-> 5]] }

\* What a watchlist file may hold: text that is no JSON, JSON that is no
\* array, an array of up to MaxItems items; "vanished": the file is gone
\* between the glob and the read.
Contents ==
    {[kind |-> k, items |-> <<>>] : k \in {"invalid", "nonarray", "vanished"}}
        \cup {[kind |-> "array", items |-> l] : l \in UNION {[1..n -> SampleItems] : n \in 0..MaxItems}}

\* The catalog's answers to the details request: objects with a title, with
\* only an original title, with neither.
DetailsWithTitle == [kind |-> "object", body |-> [title |-> <<"b">>, poster_path |-> <<"/", "p", ".", "j", "p", "g">>]]

DetailsOriginalTitle == [kind |-> "object", body |-> [title |-> <<>>, original_title |-> <<"C">>]]

DetailsNoTitle == [kind |-> "object", body |-> [id |-> 1]]

\* The catalog's answers to the release-dates request: payloads with a GB
\* theatrical date in May, in April (after a malformed one), in December of
\* the year before, and with no GB entry; and an object without "results".
ReleasesMay == [kind |-> "object", body |-> [id |-> 123, results |-> <<SecondGB>>]]

ReleasesApril ==
    [kind |-> "object", body |-> [id |-> 123, results |-> <<OtherRegion,
        [iso_3166_1 |-> "GB", release_dates |->
            <<[type |-> TMDB_RELEASE_TYPE_THEATRICAL, release_date |-> DateSamples[5].text],
              [type |-> TMDB_RELEASE_TYPE_THEATRICAL, release_date |-> DateSamples[3].text]>>]>>]]

ReleasesDecember ==
    [kind |-> "object", body |-> [id |-> 123, results |-> <<
        [iso_3166_1 |-> "GB", release_dates |->
            <<[type |-> TMDB_RELEASE_TYPE_THEATRICAL, release_date |-> DateSamples[1].text]>>]>>]]

ReleasesNoGB == [kind |-> "object", body |-> [id |-> 123, results |-> <<OtherRegion>>]]

ReleasesNoResults == [kind |-> "object", body |-> [id |-> 123]]

AnswerRaised == [kind |-> "exception", body |-> [id |-> 0]]

AnswerNoObject == [kind |-> "nonobject", body |-> [id |-> 0]]

NotFetched == [kind |-> "notfetched", body |-> [id |-> 0]]

\* The pairs of answers the catalog may give for one item: each way to fail
\* (the details request raises, the release-dates request raises, either
\* answer is no object, the release dates lack "results"), and answers that
\* pass, over the titles and the payloads.
AnswerPairs ==
    { <<AnswerRaised, NotFetched>>,
      <<DetailsWithTitle, AnswerRaised>>,
      <<AnswerNoObject, ReleasesMay>>,
      <<AnswerNoObject, AnswerRaised>>,
      <<DetailsWithTitle, AnswerNoObject>>,
      <<DetailsNoTitle, ReleasesNoResults>>,
      <<DetailsWithTitle, ReleasesMay>>,
      <<DetailsNoTitle, ReleasesMay>>,
      <<DetailsOriginalTitle, ReleasesApril>>,
      <<DetailsNoTitle, ReleasesApril>>,
      <<DetailsWithTitle, ReleasesDecember>>,
      <<DetailsWithTitle, ReleasesNoGB>>,
      <<DetailsOriginalTitle, ReleasesNoGB>>,
      <<DetailsNoTitle, ReleasesNoGB>> }

\* The days main may run on: before and after the April date.
RunDates == {MkDate(2026, 1, 1), MkDate(2026, 4, 18)}

\* The stems the glob may find in an existing watchlists directory, in its order.
GlobResults ==
    { <<>>,
      <<<<"a", "l">>>>,
      <<<<"a", "l">>, <<"B", "o">>>>,
      <<<<"B", "o">>, <<"a", "l">>>> }

RECURSIVE TotalItems(_)
TotalItems(files) == IF files = <<>> THEN 0 ELSE Len(Head(files).content.items) + TotalItems(Tail(files))

\* The watchlists directories a run may start from: the files found, with
\* their contents, holding at most MaxItems items together.
DiskFiles ==
    {fs \in UNION {[1..Len(g) -> [stem : Stems, content : Contents]] : g \in GlobResults} :
        /\ \E g \in GlobResults : Len(g) = Len(fs) /\ \A i \in 1..Len(g) : fs[i].stem = g[i]
        /\ TotalItems(fs) <= MaxItems}

NoOldWatchlist == [exists |-> FALSE, content |-> [kind |-> "vanished", items |-> <<>>]]

MainInit ==
    /\ api_key \in BOOLEAN
    /\ \/ \E fs \in DiskFiles : disk = [dir |-> TRUE, files |-> fs, old |-> NoOldWatchlist]
       \/ disk = [dir |-> FALSE, files |-> <<>>, old |-> NoOldWatchlist]
       \/ \E c \in Contents : disk = [dir |-> FALSE, files |-> <<>>, old |-> [exists |-> TRUE, content |-> c]]
    /\ pc = "start"
    /\ exit_status = "running"
    /\ run_today = NoDate
    /\ run_stamp = <<>>
    /\ watchlist_files = <<>>
    /\ done_files = 0
    /\ users = <<>>
    /\ cur_user = <<>>
    /\ watch = <<>>
    /\ pos = 0
    /\ fetched = <<>>
    /\ upcoming = <<>>
    /\ released = <<>>
    /\ tbd = <<>>
    /\ returned = "none"
    /\ site = [u \in Stems |-> NotWritten]
    /\ index = NoIndex
    /\ stderr = <<>>
    /\ SelIdle
    /\ IcsIdle

Diag(msg, id) == [msg |-> msg, id |-> id]

\* The process ends with a non-zero status: SystemExit with a message, or an
\* exception nothing catches.
Abort(msg) ==
    /\ pc' = "done"
    /\ exit_status' = "nonzero"
    /\ stderr' = Append(stderr, Diag(msg, 0))

\* Lines 260-271: the files the glob finds, after the directory is made and
\* an old watchlist.json is copied to default.json when there was none.
FoundFiles(d) ==
    IF d.dir THEN d.files
    ELSE IF d.old.exists THEN <<[stem |-> <<"d", "e", "f", "a", "u", "l", "t">>, content |-> d.old.content]>>
    ELSE <<>>

\* main up to its loop, lines 257-279.
MainStart ==
    /\ pc = "start"
    /\ IF ~api_key
       THEN /\ Abort("TMDB_API_KEY is not set")
            /\ UNCHANGED <<disk, run_today, run_stamp, watchlist_files>>
       ELSE /\ disk' = [dir |-> TRUE, files |-> FoundFiles(disk), old |-> disk.old]
            /\ watchlist_files' = FoundFiles(disk)
            /\ IF FoundFiles(disk) = <<>>
               THEN /\ Abort("No watchlist files found")
                    /\ UNCHANGED <<run_today, run_stamp>>
               ELSE /\ run_today' \in RunDates
                    /\ run_stamp' = SampleStamp
                    /\ pc' = "loop"
                    /\ UNCHANGED <<exit_status, stderr>>
    /\ UNCHANGED <<api_key, done_files, users, cur_user, watch, pos, fetched, upcoming, released, tbd,
                   returned, site, index, selvars, icsvars>>

\* Lines 282-284 and 116-131: the next file's stem is appended to users and
\* process_user_watchlist is entered; it returns with a warning, raises from
\* json.loads, or starts its loop with empty buckets.
BeginUser ==
    /\ pc = "loop"
    /\ done_files < Len(watchlist_files)
    /\ users' = Append(users, watchlist_files[done_files + 1].stem)
    /\ cur_user' = watchlist_files[done_files + 1].stem
    /\ pos' = 0
    /\ fetched' = <<>>
    /\ upcoming' = <<>>
    /\ released' = <<>>
    /\ tbd' = <<>>
    /\ LET c == watchlist_files[done_files + 1].content
       IN CASE c.kind = "vanished" ->
                 /\ stderr' = Append(stderr, Diag("Warning: Watchlist not found", 0))
                 /\ returned' = "warned"
                 /\ done_files' = done_files + 1
                 /\ watch' = <<>>
                 /\ UNCHANGED <<pc, exit_status>>
            [] c.kind = "invalid" ->
                 /\ Abort("Traceback: JSONDecodeError")
                 /\ returned' = "raised"
                 /\ watch' = <<>>
                 /\ UNCHANGED done_files
            [] c.kind = "nonarray" ->
                 /\ stderr' = Append(stderr, Diag("Warning: must be a JSON array", 0))
                 /\ returned' = "warned"
                 /\ done_files' = done_files + 1
                 /\ watch' = <<>>
                 /\ UNCHANGED <<pc, exit_status>>
            [] c.kind = "array" ->
                 /\ watch' = c.items
                 /\ returned' = "none"
                 /\ pc' = "items"
                 /\ UNCHANGED <<done_files, exit_status, stderr>>
    /\ UNCHANGED <<api_key, disk, run_today, run_stamp, watchlist_files, site, index, selvars, icsvars>>

\* The three buckets after the movie is appended to the one named.
Appended(name, movie) ==
    /\ upcoming' = IF name = "upcoming" THEN Append(upcoming, movie) ELSE upcoming
    /\ released' = IF name = "released" THEN Append(released, movie) ELSE released
    /\ tbd' = IF name = "tbd" THEN Append(tbd, movie) ELSE tbd

\* One pass of the loop of lines 133-168, with the catalog's two answers (the
\* release dates are not asked for when the details request raised).
ProcessItem ==
    /\ pc = "items"
    /\ pos < Len(watch)
    /\ LET item == watch[pos + 1]
       IN  \E a \in AnswerPairs \cup {<<NotFetched, NotFetched>>} :
              /\ (a[1] = NotFetched) <=> (~IsObject(item) \/ ~HasId(item))
              /\ fetched' = Append(fetched, [details |-> a[1], releases |-> a[2]])
              /\ LET d == a[1]
                     r == a[2]
                     outcome == ItemOutcome(item, d, r)
                 IN  CASE outcome = "raise" ->
                            /\ Abort("Traceback: AttributeError")
                            /\ returned' = "raised"
                            /\ UNCHANGED <<pos, upcoming, released, tbd>>
                       [] outcome = "skip" ->
                            /\ pos' = pos + 1
                            /\ UNCHANGED <<pc, exit_status, stderr, returned, upcoming, released, tbd>>
                       [] outcome = "error" ->
                            /\ pos' = pos + 1
                            /\ stderr' = Append(stderr, Diag("Error processing TMDb ID", item.fields.tmdb_id))
                            /\ UNCHANGED <<pc, exit_status, returned, upcoming, released, tbd>>
                       [] outcome = "invalid_details" ->
                            /\ pos' = pos + 1
                            /\ stderr' = Append(stderr, Diag("Warning: Invalid details response", item.fields.tmdb_id))
                            /\ UNCHANGED <<pc, exit_status, returned, upcoming, released, tbd>>
                       [] outcome = "invalid_releases" ->
                            /\ pos' = pos + 1
                            /\ stderr' = Append(stderr, Diag("Warning: Invalid releases response", item.fields.tmdb_id))
                            /\ UNCHANGED <<pc, exit_status, returned, upcoming, released, tbd>>
                       [] outcome = "ok" ->
                            /\ LET sel == choose_gb_theatrical_date(r.body, run_today)
                               IN  /\ Appended(BucketOf(sel), MakeMovie(item, d.body, sel))
                                   /\ stderr' = stderr \o [i \in 1..Len(sel.warnings) |->
                                                              Diag("Warning: Could not parse release date", item.fields.tmdb_id)]
                            /\ pos' = pos + 1
                            /\ UNCHANGED <<pc, exit_status, returned>>
    /\ UNCHANGED <<api_key, disk, run_today, run_stamp, watchlist_files, done_files, users, cur_user, watch,
                   site, index, selvars, icsvars>>

\* Lines 170-201: after the last item the buckets are sorted, releases.json
\* and releases.ics are written, and the call returns to main's loop.
FinishUser ==
    /\ pc = "items"
    /\ pos = Len(watch)
    /\ upcoming' = SortUpcoming(upcoming)
    /\ released' = SortReleased(released)
    /\ tbd' = SortTbd(tbd)
    /\ site' = [site EXCEPT ![cur_user] =
                   [written |-> TRUE,
                    json |-> [username |-> cur_user, upcoming |-> upcoming', tbd |-> tbd', released |-> released'],
                    ics |-> build_ics_events(upcoming', run_stamp, cur_user)]]
    /\ returned' = "written"
    /\ done_files' = done_files + 1
    /\ pc' = "loop"
    /\ UNCHANGED <<api_key, disk, exit_status, run_today, run_stamp, watchlist_files, users, cur_user, watch,
                   pos, fetched, index, stderr, selvars, icsvars>>

\* Lines 286-290 and 203-254: the index page lists sorted(users), and main ends.
WriteIndex ==
    /\ pc = "loop"
    /\ done_files = Len(watchlist_files)
    /\ index' = [written |-> TRUE, users |-> SortedUsers(users)]
    /\ pc' = "done"
    /\ exit_status' = "zero"
    /\ UNCHANGED <<api_key, disk, run_today, run_stamp, watchlist_files, done_files, users, cur_user, watch,
                   pos, fetched, upcoming, released, tbd, returned, site, stderr, selvars, icsvars>>

Next == MainStart \/ BeginUser \/ ProcessItem \/ FinishUser \/ WriteIndex

Spec == MainInit /\ [][Next]_vars

-----------------------------------------------------------------------------
(* What the claims about the selector speak of, read off the payload       *)

\* Whether the payload has a region entry with code "GB".
ClaimHasGB(p) ==
    /\ "results" \in DOMAIN p
    /\ \E i \in 1..Len(p.results) : "iso_3166_1" \in DOMAIN p.results[i] /\ p.results[i].iso_3166_1 = "GB"

\* The release-date entries of the payload's (first) GB entry.
ClaimGbDates(p) ==
    LET i == CHOOSE k \in 1..Len(p.results) :
                 /\ "iso_3166_1" \in DOMAIN p.results[k] /\ p.results[k].iso_3166_1 = "GB"
                 /\ \A j \in 1..(k - 1) : ~("iso_3166_1" \in DOMAIN p.results[j] /\ p.results[j].iso_3166_1 = "GB")
    IN  IF "release_dates" \in DOMAIN p.results[i] THEN p.results[i].release_dates ELSE <<>>

\* The positions of the entries of type 3, and of those that give a date string.
ClaimType3(rds) == {i \in 1..Len(rds) : "type" \in DOMAIN rds[i] /\ rds[i].type = 3}

ClaimDated(rds) == {i \in ClaimType3(rds) : "release_date" \in DOMAIN rds[i] /\ rds[i].release_date # <<>>}

ClaimValid(rds) == {i \in ClaimDated(rds) : SampleOf(rds[i].release_date).valid}

\* d is on or after the reference date r (d is <<year, month, day>>).
ClaimOnOrAfter(d, r) ==
    \/ d[1] > r.year
    \/ d[1] = r.year /\ d[2] > r.month
    \/ d[1] = r.year /\ d[2] = r.month /\ d[3] >= r.day

ClaimEarlier(d, e) ==
    \/ d[1] < e[1]
    \/ d[1] = e[1] /\ d[2] < e[2]
    \/ d[1] = e[1] /\ d[2] = e[2] /\ d[3] < e[3]

\* The position in I of an earliest date.
ClaimMin(rds, I) ==
    CHOOSE i \in I : \A j \in I : ~ClaimEarlier(SampleOf(rds[j].release_date).ymd, SampleOf(rds[i].release_date).ymd)

\* C1: with exactly one theatrical release date D in the GB entry, the selector
\* returns (D, "upcoming") when D is on or after the reference date (D equal
\* to it included) and (D, "released") when D is before it.
C1_SingleDate ==
    (chosen # NotRun /\ ClaimHasGB(payload)) =>
        LET rds == ClaimGbDates(payload)
        IN  (Cardinality(ClaimDated(rds)) = 1 /\ ClaimValid(rds) = ClaimDated(rds)) =>
                LET D == SampleOf(rds[CHOOSE i \in ClaimDated(rds) : TRUE].release_date)
                IN  /\ chosen.date = D.iso
                    /\ chosen.bucket = IF ClaimOnOrAfter(D.ymd, today) THEN "upcoming" ELSE "released"

\* A single theatrical date equal to the reference date, classified upcoming.
C1_Witness ==
    /\ chosen # NotRun
    /\ ClaimHasGB(payload)
    /\ LET rds == ClaimGbDates(payload)
       IN  /\ Cardinality(ClaimDated(rds)) = 1
           /\ ClaimValid(rds) = ClaimDated(rds)
           /\ SampleOf(rds[CHOOSE i \in ClaimDated(rds) : TRUE].release_date).ymd = <<today.year, today.month, today.day>>
    /\ chosen.bucket = "upcoming"

\* C2: with a non-empty set S of theatrical dates in the GB entry, in any
\* order, the selector returns the earliest date of S on or after the
\* reference date as "upcoming" if there is one, and otherwise the earliest
\* date of S as "released".
C2_EarliestEligible ==
    (chosen # NotRun /\ ClaimHasGB(payload)) =>
        LET rds == ClaimGbDates(payload)
            S == ClaimDated(rds)
            F == {i \in S : ClaimOnOrAfter(SampleOf(rds[i].release_date).ymd, today)}
        IN  (S # {} /\ ClaimValid(rds) = S) =>
                IF F # {}
                THEN /\ chosen.date = SampleOf(rds[ClaimMin(rds, F)].release_date).iso
                     /\ chosen.bucket = "upcoming"
                ELSE /\ chosen.date = SampleOf(rds[ClaimMin(rds, S)].release_date).iso
                     /\ chosen.bucket = "released"

\* A later future date listed before an earlier future date and a past date:
\* the earlier future date is returned as upcoming.
C2_Witness ==
    /\ chosen # NotRun
    /\ ClaimHasGB(payload)
    /\ LET rds == ClaimGbDates(payload)
       IN  /\ Len(rds) = 3
           /\ ClaimValid(rds) = {1, 2, 3}
           /\ ClaimEarlier(SampleOf(rds[2].release_date).ymd, SampleOf(rds[1].release_date).ymd)
           /\ ClaimOnOrAfter(SampleOf(rds[2].release_date).ymd, today)
           /\ ~ClaimOnOrAfter(SampleOf(rds[3].release_date).ymd, today)
           /\ chosen.date = SampleOf(rds[2].release_date).iso
    /\ chosen.bucket = "upcoming"

\* C3: without a GB region entry (an empty results list included), and with a
\* GB entry that holds no entry of theatrical type 3, the selector returns
\* (null, null), whatever other regions and other release types hold.
C3_NoGbOrNoTheatrical ==
    (chosen # NotRun /\ (~ClaimHasGB(payload) \/ ClaimType3(ClaimGbDates(payload)) = {})) =>
        (chosen.date = None /\ chosen.bucket = NoBucket)

\* Another region with a theatrical date, then a GB entry whose only dates are
\* of another type: (null, null).
C3_Witness ==
    /\ chosen # NotRun
    /\ ClaimHasGB(payload)
    /\ Len(payload.results) = 2
    /\ payload.results[1] = OtherRegion
    /\ ClaimGbDates(payload) # <<>>
    /\ ClaimType3(ClaimGbDates(payload)) = {}
    /\ chosen.date = None
    /\ chosen.bucket = NoBucket

\* The payload without the theatrical entries of its GB entries whose date
\* string denotes no date.
ClaimStripped(p) ==
    IF "results" \notin DOMAIN p THEN p
    ELSE [p EXCEPT !.results =
            [k \in 1..Len(p.results) |->
                IF "release_dates" \notin DOMAIN p.results[k] THEN p.results[k]
                ELSE [p.results[k] EXCEPT !.release_dates =
                        SelectSeq(p.results[k].release_dates,
                                  LAMBDA rd : ~("type" \in DOMAIN rd /\ rd.type = 3
                                                /\ "release_date" \in DOMAIN rd /\ rd.release_date # <<>>
                                                /\ ~SampleOf(rd.release_date).valid))]]]

\* C4: a malformed date string in a GB theatrical entry does not abort the
\* selector: the result is one of its three outcomes and equals the result
\* for the payload without the unparseable entries, one warning is given per
\* such entry, and when every theatrical date is malformed the result is
\* (null, null).
C4_MalformedSkipped ==
    chosen # NotRun =>
        /\ chosen.bucket \in {"upcoming", "released", NoBucket}
        /\ LET clean == choose_gb_theatrical_date(ClaimStripped(payload), today)
           IN  chosen.date = clean.date /\ chosen.bucket = clean.bucket
        /\ ClaimHasGB(payload) =>
              LET rds == ClaimGbDates(payload)
              IN  /\ Len(chosen.warnings) = Cardinality(ClaimDated(rds) \ ClaimValid(rds))
                  /\ ClaimValid(rds) = {} => (chosen.date = None /\ chosen.bucket = NoBucket)

\* A past date, then a malformed date string, then a future date: the future
\* date after the malformed one is returned, with one warning.
C4_Witness ==
    /\ chosen # NotRun
    /\ ClaimHasGB(payload)
    /\ LET rds == ClaimGbDates(payload)
       IN  /\ Len(rds) = 3
           /\ ClaimDated(rds) = {1, 2, 3}
           /\ ClaimValid(rds) = {1, 3}
           /\ ~ClaimOnOrAfter(SampleOf(rds[1].release_date).ymd, today)
           /\ chosen.date = SampleOf(rds[3].release_date).iso
    /\ chosen.bucket = "upcoming"
    /\ Len(chosen.warnings) = 1

-----------------------------------------------------------------------------
(* What the claims about the builder speak of, read off the document       *)

\* The k-th smallest element of a set of integers.
ClaimKth(S, k) == CHOOSE p \in S : Cardinality({q \in S : q <= p}) = k

\* The lines of a text: what lies between its line breaks (text.split("\n")).
ClaimLines(t) ==
    LET breaks == SelectSeq([i \in 1..Len(t) |-> i], LAMBDA i : t[i] = "\n")
        stop(k) == IF k > Len(breaks) THEN Len(t) + 1 ELSE breaks[k]
        start(k) == IF k = 1 THEN 1 ELSE breaks[k - 1] + 1
    IN  [k \in 1..(Len(breaks) + 1) |-> SubSeq(t, start(k), stop(k) - 1)]

ClaimStartsWith(s, pre) == Len(s) >= Len(pre) /\ SubSeq(s, 1, Len(pre)) = pre

ClaimBuilt == ics_doc # NotBuilt /\ ics_doc # Raised

\* C9: the document holds exactly one VEVENT per movie handed in, in the order
\* handed in (none dropped, merged or moved), each between its own BEGIN:VEVENT
\* and END:VEVENT, all of them between a single BEGIN:VCALENDAR first line and
\* a single END:VCALENDAR last line; for no movies, the two markers and no event.
C9_OneEventPerMovieInOrder ==
    ClaimBuilt =>
        LET ls == ClaimLines(ics_doc)
            n == Len(ls)
            begins == {i \in 1..n : ls[i] = L_BEGIN_VEVENT}
            ends == {i \in 1..n : ls[i] = L_END_VEVENT}
        IN  /\ n >= 3
            /\ ls[n] = <<>>
            /\ {i \in 1..n : ls[i] = L_BEGIN_VCALENDAR} = {1}
            /\ {i \in 1..n : ls[i] = L_END_VCALENDAR} = {n - 1}
            /\ Cardinality(begins) = Len(ics_movies)
            /\ Cardinality(ends) = Len(ics_movies)
            /\ \A k \in 1..Len(ics_movies) :
                  LET b == ClaimKth(begins, k)
                      e == ClaimKth(ends, k)
                  IN  /\ 1 < b /\ b < e /\ e < n - 1
                      /\ k > 1 => ClaimKth(ends, k - 1) < b
                      /\ ClaimStartsWith(ls[b + 1], L_UID \o L_TMDB_DASH \o IntStr(ics_movies[k].tmdb_id) \o <<"-">>)
                      /\ ls[b + 3] = L_DTSTART \o SelectSeq(ics_movies[k].release_date, LAMBDA c : c # "-")

\* Two movies handed in with the later release date first: two events, the
\* later date's event first.
C9_Witness ==
    /\ ClaimBuilt
    /\ Len(ics_movies) = 2
    /\ ics_movies[1].tmdb_id = 456
    /\ ics_movies[2].tmdb_id = 88
    /\ LET ls == ClaimLines(ics_doc)
       IN  /\ Len(ls) = 29
           /\ ls[11] = L_DTSTART \o <<"2", "0", "2", "6", "1", "2", "3", "1">>
           /\ ls[21] = L_DTSTART \o <<"2", "0", "2", "3", "0", "2", "2", "8">>

\* The escaping the claim describes, one character at a time.
RECURSIVE ClaimEscape(_)
ClaimEscape(s) ==
    IF s = <<>> THEN <<>>
    ELSE (CASE Head(s) = "\\" -> <<"\\", "\\">>
            [] Head(s) = ";" -> <<"\\", ";">>
            [] Head(s) = "," -> <<"\\", ",">>
            [] Head(s) = "\n" -> <<"\\", "n">>
            [] OTHER -> <<Head(s)>>) \o ClaimEscape(Tail(s))

\* The character at position i of the line stands after an even number of
\* backslashes: nothing escapes it.
ClaimUnescapedAt(line, i) ==
    LET k == CHOOSE j \in 0..(i - 1) :
                 /\ \A q \in (i - j)..(i - 1) : line[q] = "\\"
                 /\ j = i - 1 \/ line[i - j - 1] # "\\"
    IN  k % 2 = 0

ClaimNoRawSpecial(line) == \A i \in 1..Len(line) : line[i] \in {";", ","} => ~ClaimUnescapedAt(line, i)

\* The identifier, summary and description lines of every event are the
\* escaped values, hold no unescaped semicolon or comma, and no line break of
\* the input has split a line.
ClaimFieldsEscaped ==
    LET ls == ClaimLines(ics_doc)
    IN  /\ Len(ls) = 9 + 10 * Len(ics_movies)
        /\ \A k \in 1..Len(ics_movies) :
              LET b == 8 + 10 * (k - 1)
                  m == ics_movies[k]
              IN  /\ ls[b + 1] = L_UID \o ClaimEscape(L_TMDB_DASH \o IntStr(m.tmdb_id) \o <<"-">> \o ics_user \o L_AT_TRACKER)
                  /\ ls[b + 5] = L_SUMMARY \o ClaimEscape(m.title \o L_UK_RELEASE)
                  /\ ls[b + 6] = L_DESCRIPTION \o ClaimEscape(L_TMDB_COLON \o m.tmdb_url)
                  /\ \A j \in {b + 1, b + 5, b + 6} :
                        ClaimNoRawSpecial(SubSeq(ls[j], Len(IF j = b + 1 THEN L_UID ELSE IF j = b + 5 THEN L_SUMMARY ELSE L_DESCRIPTION) + 1, Len(ls[j])))

\* C10 as amended: the event identifier, the summary and the description of
\* every event are each the escaped value (backslash doubled, semicolon and
\* comma prefixed with a backslash, line break turned into backslash-n), so
\* no raw semicolon, comma or line break of the input reaches these three
\* values.
C10_FieldsEscaped == ClaimBuilt => ClaimFieldsEscaped

\* C10 as stated: the three values are escaped, and no semicolon or comma of
\* the input stands unescaped anywhere in the document (the only lines whose
\* own text holds one are DTSTART and DTEND).
C10_NoRawSpecialInDocument ==
    ClaimBuilt =>
        /\ ClaimFieldsEscaped
        /\ LET ls == ClaimLines(ics_doc)
           IN  \A j \in 1..Len(ls) :
                  (~ClaimStartsWith(ls[j], L_DTSTART) /\ ~ClaimStartsWith(ls[j], L_DTEND)) => ClaimNoRawSpecial(ls[j])

\* The title "Test; Movie, Part 2" built for a user identifier with a comma:
\* the summary line is the escaped title, the identifier line the escaped
\* user identifier.
C10_Witness ==
    /\ ClaimBuilt
    /\ Len(ics_movies) >= 1
    /\ ics_movies[1].title = <<"T", "e", "s", "t", ";", " ", "M", "o", "v", "i", "e", ",", " ", "P", "a", "r", "t", " ", "2">>
    /\ ics_user = <<"a", ",", "b">>
    /\ LET ls == ClaimLines(ics_doc)
       IN  /\ ls[13] = <<"S", "U", "M", "M", "A", "R", "Y", ":", "T", "e", "s", "t", "\\", ";", " ", "M", "o", "v", "i", "e", "\\", ",", " ", "P", "a", "r", "t", " ", "2", " ", "(", "U", "K", " ", "t", "h", "e", "a", "t", "r", "i", "c", "a", "l", " ", "r", "e", "l", "e", "a", "s", "e", ")">>
           /\ ls[9] = <<"U", "I", "D", ":", "t", "m", "d", "b", "-", "1", "2", "3", "-", "a", "\\", ",", "b", "@", "f", "i", "l", "m", "-", "r", "e", "l", "e", "a", "s", "e", "-", "t", "r", "a", "c", "k", "e", "r">>


-----------------------------------------------------------------------------
(* What the claims about a user's watchlist speak of, read off the run     *)

\* The catalog id of a watchlist entry, 0 when it has none.
ClaimId(item) == IF item.type = "object" /\ "tmdb_id" \in DOMAIN item.fields THEN item.fields.tmdb_id ELSE 0

\* Entry i was fetched twice without an exception and both answers have the
\* shape asked for.
ClaimPassed(i) ==
    /\ ClaimId(watch[i]) # 0
    /\ fetched[i].details.kind = "object"
    /\ fetched[i].releases.kind = "object"
    /\ "results" \in DOMAIN fetched[i].releases.body

\* Entry i has an id and a fetch raised or an answer has the wrong shape.
ClaimFailed(item, f) ==
    /\ ClaimId(item) # 0
    /\ \/ f.details.kind \in {"exception", "nonobject"}
       \/ f.releases.kind \in {"exception", "nonobject"}
       \/ f.releases.kind = "object" /\ "results" \notin DOMAIN f.releases.body

\* The bucket the selector names for entry i, tbd when it names none.
ClaimBucket(i) ==
    LET b == choose_gb_theatrical_date(fetched[i].releases.body, run_today).bucket
    IN  IF b = "upcoming" \/ b = "released" THEN b ELSE "tbd"

ClaimBuckets == [upcoming |-> upcoming, released |-> released, tbd |-> tbd]

\* How many movies of the list carry the id.
ClaimCount(ms, id) == Cardinality({k \in 1..Len(ms) : ms[k].tmdb_id = id})

\* The ids met so far, in the watchlist and in the buckets.
ClaimIds ==
    {ClaimId(watch[i]) : i \in 1..pos}
        \cup UNION {{ClaimBuckets[b][k].tmdb_id : k \in 1..Len(ClaimBuckets[b])} : b \in DOMAIN ClaimBuckets}

\* C5: at every point of process_user_watchlist and after it, each entry
\* handled so far that has an id, was fetched twice and passed both shape
\* checks is in the bucket the selector names for it (tbd, with a null
\* release date, when it names none) and in no other, and no bucket holds
\* anything else: entries without an id and entries that failed are in none.
C5_ExactlyOneBucket ==
    /\ \A b \in DOMAIN ClaimBuckets : \A id \in ClaimIds :
          ClaimCount(ClaimBuckets[b], id)
              = Cardinality({i \in 1..pos : ClaimPassed(i) /\ ClaimId(watch[i]) = id /\ ClaimBucket(i) = b})
    /\ Len(upcoming) + Len(released) + Len(tbd) = Cardinality({i \in 1..pos : ClaimPassed(i)})
    /\ \A k \in 1..Len(tbd) : tbd[k].release_date = None
    /\ \A k \in 1..Len(upcoming) : upcoming[k].release_date # None
    /\ \A k \in 1..Len(released) : released[k].release_date # None

\* A watchlist was processed to its end with one entry in a bucket and
\* another, which failed or has no id, in none.
C5_Witness ==
    /\ returned = "written"
    /\ Len(watch) = 2
    /\ \E i, j \in 1..2 : ClaimPassed(i) /\ ~ClaimPassed(j)
    /\ Len(upcoming) + Len(released) + Len(tbd) = 1

\* C6: a pass of the loop over an entry whose fetch raises or whose answer
\* has the wrong shape writes one diagnostic naming the entry, leaves the
\* three buckets as they were and moves to the next entry without ending the
\* run; and once the loop over a watchlist of objects is over with such a
\* failure in it, every entry has been fetched and the user's two files are
\* written.
C6_FailureLoggedAndContinues ==
    /\ [][(pc = "items" /\ pos < Len(watch) /\ Len(fetched') = Len(fetched) + 1
              /\ ClaimFailed(watch[pos + 1], fetched'[Len(fetched')]))
             => /\ pos' = pos + 1
                /\ pc' = "items"
                /\ exit_status' = exit_status
                /\ upcoming' = upcoming /\ released' = released /\ tbd' = tbd
                /\ Len(stderr') = Len(stderr) + 1
                /\ stderr'[Len(stderr')].id = ClaimId(watch[pos + 1])]_vars
    /\ []((/\ pc \in {"loop", "done"}
           /\ \A i \in 1..Len(watch) : watch[i].type = "object"
           /\ \E i \in 1..Len(fetched) : ClaimFailed(watch[i], fetched[i]))
             => /\ Len(fetched) = Len(watch)
                /\ returned = "written"
                /\ site[cur_user].written
                /\ site[cur_user].ics # <<>>)

\* The first entry of a watchlist failed, the second is in a bucket, and the
\* files are written.
C6_Witness ==
    /\ returned = "written"
    /\ Len(watch) = 2
    /\ ClaimFailed(watch[1], fetched[1])
    /\ ClaimPassed(2)
    /\ Len(upcoming) + Len(released) + Len(tbd) = 1
    /\ site[cur_user].written

\* C7: a run that had the credential and found a watchlist file ends with
\* every file handled, the index page written and exit status zero.
C7_NoAbortBelowConfiguration ==
    (pc = "done" /\ api_key /\ watchlist_files # <<>>)
        => /\ exit_status = "zero"
           /\ index.written
           /\ done_files = Len(watchlist_files)

\* Text order by code points.
RECURSIVE ClaimTextLeq(_, _)
ClaimTextLeq(a, b) ==
    IF a = <<>> THEN TRUE
    ELSE IF b = <<>> THEN FALSE
    ELSE IF Ord(Head(a)) # Ord(Head(b)) THEN Ord(Head(a)) < Ord(Head(b))
    ELSE ClaimTextLeq(Tail(a), Tail(b))

\* The release date of a written movie, as a date.
ClaimDate(m) == parse_iso_date(m.release_date)

\* The two lists hold the same movies, each as often.
ClaimPermutation(xs, ys) ==
    /\ Len(xs) = Len(ys)
    /\ \A k \in 1..Len(xs) :
          Cardinality({i \in 1..Len(xs) : xs[i] = xs[k]}) = Cardinality({i \in 1..Len(ys) : ys[i] = xs[k]})

\* C8: in every releases.json written, upcoming is in ascending order of
\* release date, released in descending order of release date and tbd in
\* ascending order of lowercased title; and the step that writes the file
\* writes, for each bucket, a permutation of the bucket accumulated by the loop.
C8_WrittenListsSorted ==
    /\ [](\A u \in DOMAIN site : site[u].written =>
            LET out == site[u].json
            IN  /\ \A i, j \in 1..Len(out.upcoming) :
                      i < j => DateLeq(ClaimDate(out.upcoming[i]), ClaimDate(out.upcoming[j]))
                /\ \A i, j \in 1..Len(out.released) :
                      i < j => DateLeq(ClaimDate(out.released[j]), ClaimDate(out.released[i]))
                /\ \A i, j \in 1..Len(out.tbd) :
                      i < j => ClaimTextLeq(Lower(out.tbd[i].title), Lower(out.tbd[j].title)))
    /\ [][(site' # site) =>
            /\ site'[cur_user].written
            /\ ClaimPermutation(site'[cur_user].json.upcoming, upcoming)
            /\ ClaimPermutation(site'[cur_user].json.released, released)
            /\ ClaimPermutation(site'[cur_user].json.tbd, tbd)]_vars

\* A written tbd list whose order is that of the lowercased titles and not
\* that of the titles as they stand, and not the watchlist's order either.
C8_Witness ==
    /\ returned = "written"
    /\ Len(site[cur_user].json.tbd) = 2
    /\ site[cur_user].json.tbd[1].title = <<"b">>
    /\ site[cur_user].json.tbd[2].title = <<"C">>
    /\ site[cur_user].json.tbd[1].tmdb_id = ClaimId(watch[2])
    /\ site[cur_user].json.tbd[1].tmdb_id # site[cur_user].json.tbd[2].tmdb_id

\* Two upcoming movies were written in the reverse of the watchlist's order.
C8_WitnessDates ==
    /\ returned = "written"
    /\ Len(site[cur_user].json.upcoming) = 2
    /\ site[cur_user].json.upcoming[1].tmdb_id = ClaimId(watch[2])
    /\ site[cur_user].json.upcoming[1].release_date # site[cur_user].json.upcoming[2].release_date


-----------------------------------------------------------------------------
(* What the claims about two documents speak of                            *)

\* The identifier lines of a document, in its order.
ClaimUidLines(doc) == SelectSeq(ClaimLines(doc), LAMBDA l : ClaimStartsWith(l, L_UID))

ClaimBothBuilt == ClaimBuilt /\ other_doc # NotBuilt /\ other_doc # Raised

\* C11: the two documents built from the same movies and the same stamp for
\* two different user identifiers are different texts, and for every movie
\* the identifier line of its event in the one (UID:tmdb-<id>-<u1>@film-
\* release-tracker, escaped; the second line of the event's ten) differs from
\* that of its event in the other.
C11_UsersScopeIdentifiers ==
    ClaimBothBuilt =>
        /\ ics_user # other_user
        /\ ics_doc # other_doc
        /\ LET mine == ClaimLines(ics_doc)
               theirs == ClaimLines(other_doc)
           IN  /\ Len(mine) = 9 + 10 * Len(ics_movies)
               /\ Len(theirs) = 9 + 10 * Len(ics_movies)
               /\ \A k \in 1..Len(ics_movies) :
                     LET stem == L_TMDB_DASH \o IntStr(ics_movies[k].tmdb_id) \o <<"-">>
                         at == 9 + 10 * (k - 1)
                     IN  /\ mine[at] = L_UID \o ClaimEscape(stem \o ics_user \o L_AT_TRACKER)
                         /\ theirs[at] = L_UID \o ClaimEscape(stem \o other_user \o L_AT_TRACKER)
                         /\ mine[at] # theirs[at]

\* One movie built for the users "a,b" and "alice": two documents, one
\* identifier line each.
C11_Witness ==
    /\ ClaimBothBuilt
    /\ Len(ics_movies) = 1
    /\ ics_user = <<"a", ",", "b">>
    /\ other_user = <<"a", "l", "i", "c", "e">>
    /\ ClaimUidLines(ics_doc) = <<L_UID \o <<"t", "m", "d", "b", "-", "1", "2", "3", "-", "a", "\\", ",", "b", "@", "f", "i", "l", "m", "-", "r", "e", "l", "e", "a", "s", "e", "-", "t", "r", "a", "c", "k", "e", "r">>>>
    /\ ClaimUidLines(other_doc) = <<L_UID \o <<"t", "m", "d", "b", "-", "1", "2", "3", "-", "a", "l", "i", "c", "e", "@", "f", "i", "l", "m", "-", "r", "e", "l", "e", "a", "s", "e", "-", "t", "r", "a", "c", "k", "e", "r">>>>


-----------------------------------------------------------------------------
(* What the claim about an event's two dates speaks of                     *)

\* The number n in w decimal digits.
ClaimDigits(n, w) ==
    LET digit == <<"0", "1", "2", "3", "4", "5", "6", "7", "8", "9">>
        pow(k) == IF k = 0 THEN 1 ELSE IF k = 1 THEN 10 ELSE IF k = 2 THEN 100 ELSE 1000
    IN  [i \in 1..w |-> digit[((n \div pow(w - i)) % 10) + 1]]

\* The calendar day after year y, month m, day d, as <<year, month, day>>.
ClaimNextDay(y, m, d) ==
    LET leap == (y % 4 = 0 /\ y % 100 # 0) \/ y % 400 = 0
        last == IF m = 2 THEN (IF leap THEN 29 ELSE 28)
                ELSE IF m \in {4, 6, 9, 11} THEN 30 ELSE 31
    IN  IF d < last THEN <<y, m, d + 1>>
        ELSE IF m < 12 THEN <<y, m + 1, 1>>
        ELSE <<y + 1, 1, 1>>

\* Year, month and day of a release date written YYYY-MM-DD.
ClaimYmd(t) == <<DigitsVal(SubSeq(t, 1, 4)), DigitsVal(SubSeq(t, 6, 7)), DigitsVal(SubSeq(t, 9, 10))>>

\* C12: in every document built, the event of each movie has as DTSTART the
\* movie's release date and as DTEND the calendar day after it, also across
\* the end of a month, of February in a leap year and of a year.
C12_EndIsNextDay ==
    ClaimBuilt =>
        LET ls == ClaimLines(ics_doc)
        IN  /\ Len(ls) = 9 + 10 * Len(ics_movies)
            /\ \A k \in 1..Len(ics_movies) :
                  LET b == 8 + 10 * (k - 1)
                      s == ClaimYmd(ics_movies[k].release_date)
                      e == ClaimNextDay(s[1], s[2], s[3])
                  IN  /\ ls[b + 3] = L_DTSTART \o ClaimDigits(s[1], 4) \o ClaimDigits(s[2], 2) \o ClaimDigits(s[3], 2)
                      /\ ls[b + 4] = L_DTEND \o ClaimDigits(e[1], 4) \o ClaimDigits(e[2], 2) \o ClaimDigits(e[3], 2)

\* A document with the events of a movie released on 2026-12-31 and of one
\* released on the leap day 2024-02-29: they end on 2027-01-01 and 2024-03-01.
C12_Witness ==
    /\ ClaimBuilt
    /\ Len(ics_movies) = 2
    /\ ics_movies[1].release_date = <<"2", "0", "2", "6", "-", "1", "2", "-", "3", "1">>
    /\ ics_movies[2].release_date = <<"2", "0", "2", "4", "-", "0", "2", "-", "2", "9">>
    /\ ClaimLines(ics_doc)[12] = L_DTEND \o <<"2", "0", "2", "7", "0", "1", "0", "1">>
    /\ ClaimLines(ics_doc)[22] = L_DTEND \o <<"2", "0", "2", "4", "0", "3", "0", "1">>

\* The builder raised: a movie released on the last day a date can hold has
\* no next day, and no document is returned.
C12_WitnessNoNextDay ==
    /\ ics_doc = Raised
    /\ \E k \in 1..Len(ics_movies) : ics_movies[k].release_date = <<"9", "9", "9", "9", "-", "1", "2", "-", "3", "1">>


-----------------------------------------------------------------------------
(* What the claim about the optional user identifier speaks of             *)

ClaimGenericBuilt == generic_doc # NotBuilt /\ generic_doc # Raised

-----------------------------------------------------------------------------
(* What the claim about successive runs speaks of                          *)

\* The selector has been called for the payload on an earlier reference
\* date (previous) and on the current, later one (chosen).
ClaimTwoRuns == previous # NotRun /\ chosen # NotRun

\* C14: for one payload and two reference dates, the later after the earlier:
\* a payload classified released on the earlier date is classified released
\* with the same chosen date on the later; a payload with no date and no
\* bucket on the earlier date has none on the later; and a payload classified
\* upcoming on the earlier date is upcoming or released on the later, so the
\* bucket never moves from released to upcoming nor to or from none.
C14_BucketOnlyMovesToReleased ==
    ClaimTwoRuns =>
        /\ previous.bucket = "released" =>
              (chosen.bucket = "released" /\ chosen.date = previous.date /\ chosen.date # None)
        /\ previous.bucket = NoBucket =>
              (previous.date = None /\ chosen.bucket = NoBucket /\ chosen.date = None)
        /\ previous.bucket = "upcoming" => chosen.bucket \in {"upcoming", "released"}
        /\ previous.bucket \in {"upcoming", "released", NoBucket}

\* A payload with two valid theatrical dates, classified released on one
\* reference date and on a later one.
C14_Witness ==
    /\ ClaimTwoRuns
    /\ ClaimHasGB(payload)
    /\ Cardinality(ClaimValid(ClaimGbDates(payload))) = 2
    /\ previous.bucket = "released"
    /\ chosen.bucket = "released"
    /\ chosen.date = previous.date

\* A payload classified upcoming on one reference date and released on a
\* later one.
C14_WitnessMoved ==
    /\ ClaimTwoRuns
    /\ previous.bucket = "upcoming"
    /\ chosen.bucket = "released"

\* A payload with a GB entry and no date and no bucket on two reference dates.
C14_WitnessNone ==
    /\ ClaimTwoRuns
    /\ ClaimHasGB(payload)
    /\ previous.bucket = NoBucket
    /\ chosen.bucket = NoBucket


-----------------------------------------------------------------------------
(* What the claim about the index page speaks of                           *)

\* C15: once the index page is written, every user it lists is one whose
\* releases.json and releases.ics were written in this run; a user whose
\* watchlist was reported and skipped is not on it.
C15_IndexListsOnlyWrittenUsers ==
    index.written => \A k \in 1..Len(index.users) : site[index.users[k]].written

=============================================================================
